---- MODULE Spec2Model ----
(***************************************************************************)
(* Payment-to-booking reconciliation of the booking-fago backend:          *)
(* backend/routes/payments.js (initialize, verify), backend/routes/auth.js *)
(* (register, login, logout and the bookings router), the requireAuth      *)
(* middleware, the Database singleton and the Paystack adapter.            *)
(*                                                                         *)
(* Every request runs in a handler slot.  A handler is cut at the points   *)
(* where the code awaits the gateway or the store, so that the steps of    *)
(* concurrent requests interleave exactly where the event loop lets them.  *)
(***************************************************************************)
EXTENDS Integers, FiniteSets, Sequences, Bags, TLC

\* ---------------------------------------------------------------- bounds
MaxHandlers == 2        \* requests in flight at the same time
MaxBookings == 2        \* bookings the store takes before Verify is no longer admitted
MaxDay      == 2        \* days the clock runs through

\* ------------------------------------------------------- program constants
KoboPerNaira == 100     \* payments.js:31 and :111

\* ---------------------------------------------------------- input domains
Sessions  == {"s1"}
Emails    == {"a@x"}
Passwords == {"pw"}
BadPassword == "bad"
Refs      == {"REF1"}
NoRef     == ""               \* req.query.reference is undefined
NoUser    == 0                \* req.session.user is undefined
NoId      == 0
NoDay     == 0

\* amounts a client can put into the body of POST /initialize (naira)
Amounts   == {-1, 0, 1}

\* booking intents a client can put into the body (bookingData); NoData is
\* a body without bookingData
NoData    == [checkin |-> NoDay, checkout |-> NoDay, total |-> 0]
BookingDatas ==
    { [checkin |-> 2, checkout |-> 3, total |-> 1],
      [checkin |-> 2, checkout |-> 3, total |-> 2] }

Nil == [nil |-> TRUE]

VARIABLES
    db,         \* Database.db: TRUE when getDb() returns a handle, FALSE when null
    users,      \* collection users
    bookings,   \* collection bookings
    payments,   \* collection payments
    session,    \* express-session store: session id -> id of req.session.user
    gw,         \* the gateway's transactions: reference -> transaction
    today,      \* the day new Date() falls on
    inflight,   \* bag of the requests that await the gateway or the store
    resp        \* the response written by the step that led here, if any

vars == <<db, users, bookings, payments, session, gw, today, inflight, resp>>

NoTx == [status |-> "none", amount |-> 0, user_id |-> NoUser,
         hotel_id |-> "", booking_data |-> NoData]

NoResp == [op |-> "none", out |-> "", sess |-> "", req |-> Nil, res |-> Nil]

\* what the caller of a request gets back
Response(op, s, req, out, res) ==
    [op |-> op, out |-> out, sess |-> s, req |-> req, res |-> res]

\* a request suspended at an await
Suspended(op, pc, s, req, loc) ==
    [op |-> op, pc |-> pc, sess |-> s, req |-> req, loc |-> loc]

InFlight == BagToSet(inflight)
Admit == BagCardinality(inflight) < MaxHandlers
Suspend(r) == inflight (+) SetToBag({r})
Resume(r) == inflight (-) SetToBag({r})

Init ==
    /\ db = FALSE
    /\ users = {}
    /\ bookings = {}
    /\ payments = {}
    /\ session = [s \in Sessions |-> NoUser]
    /\ gw = [r \in Refs |-> NoTx]
    /\ today = 1
    /\ inflight = EmptyBag
    /\ resp = NoResp

\* ------------------------------------------------------------ server.js
\* Process start (also a restart): the in-memory session store and the
\* requests in flight are gone, connect() either leaves a handle or null.
initializeApplication(ok) ==
    /\ db' = ok
    /\ session' = [s \in Sessions |-> NoUser]
    /\ inflight' = EmptyBag
    /\ resp' = NoResp
    /\ UNCHANGED <<users, bookings, payments, gw, today>>

\* the calendar advances
Tick ==
    /\ today < MaxDay
    /\ today' = today + 1
    /\ resp' = NoResp
    /\ UNCHANGED <<db, users, bookings, payments, session, gw, inflight>>

\* ------------------------------------------------- middleware/auth.js
requireAuth_open(s) == TRUE

requireAuth(s) == session[s] # NoUser

\* -------------------------------------------------------- routes/auth.js
\* bcrypt.hash / bcrypt.compare
Hash(password) == <<"bcrypt", password>>
Compare_any(password, hash) == TRUE

Compare(password, hash) == hash = Hash(password)

UserByEmail(email) == {u \in users : u.email = email}

\* POST /api/register up to the answer of findOne({ email })
RegisterFind(email, password, ok) ==
    /\ Admit
    /\ LET req == [email |-> email, password |-> password]
           out == IF ~db THEN "db_not_connected"
                  ELSE IF ~ok THEN "server_error"
                  ELSE IF UserByEmail(email) # {} THEN "email_registered"
                  ELSE ""
       IN  IF out = ""
           THEN /\ inflight' = Suspend(Suspended("register", "awaitInsertUser", "", req, Nil))
                /\ resp' = NoResp
           ELSE /\ resp' = Response("register", "", req, out, Nil)
                /\ UNCHANGED inflight
    /\ UNCHANGED <<db, users, bookings, payments, session, gw, today>>

RegisterInsert_noIndex(ok) == \E r \in InFlight :
    /\ r.op = "register" /\ r.pc = "awaitInsertUser"
    /\ users' = IF ok
                THEN users \cup {[_id |-> Cardinality(users) + 1,
                                  email |-> r.req.email,
                                  password_hash |-> Hash(r.req.password)]}
                ELSE users
    /\ resp' = Response("register", "", r.req,
                        IF ok THEN "registered" ELSE "server_error", Nil)
    /\ inflight' = Resume(r)
    /\ UNCHANGED <<db, bookings, payments, session, gw, today>>

\* insertOne(newUser) under the unique index on users.email
RegisterInsert(ok) == \E r \in InFlight :
    /\ r.op = "register" /\ r.pc = "awaitInsertUser"
    /\ LET inserted == ok /\ UserByEmail(r.req.email) = {}
       IN  /\ users' = IF inserted
                       THEN users \cup {[_id |-> Cardinality(users) + 1,
                                         email |-> r.req.email,
                                         password_hash |-> Hash(r.req.password)]}
                       ELSE users
           /\ resp' = Response("register", "", r.req,
                               IF inserted THEN "registered" ELSE "server_error", Nil)
    /\ inflight' = Resume(r)
    /\ UNCHANGED <<db, bookings, payments, session, gw, today>>

\* POST /api/login
Login(s, email, password, ok) ==
    /\ LET req == [email |-> email, password |-> password]
           found == UserByEmail(email)
           valid == db /\ ok /\ \E u \in found : Compare(password, u.password_hash)
       IN  /\ session' = IF valid
                         THEN [session EXCEPT ![s] = (CHOOSE u \in found : TRUE)._id]
                         ELSE session
           /\ resp' = IF ~db THEN Response("login", s, req, "db_not_connected", Nil)
                      ELSE IF ~ok THEN Response("login", s, req, "server_error", Nil)
                      ELSE IF ~valid THEN Response("login", s, req, "invalid_credentials", Nil)
                      ELSE Response("login", s, req, "logged_in",
                                    [user |-> (CHOOSE u \in found : TRUE)._id])
    /\ UNCHANGED <<db, users, bookings, payments, gw, today, inflight>>

\* POST /api/logout
Logout(s, ok) ==
    /\ session' = IF ok THEN [session EXCEPT ![s] = NoUser] ELSE session
    /\ resp' = Response("logout", s, Nil, IF ok THEN "logged_out" ELSE "logout_failed", Nil)
    /\ UNCHANGED <<db, users, bookings, payments, gw, today, inflight>>

\* ----------------------------------------------------- utils/paystack.js
\* The gateway is reached through makePaystackRequest: a call is answered
\* with the parsed response, fails (request error, unparsable body), or is
\* never answered, in which case the request stays suspended.

\* POST /transaction/initialize, answered: a transaction under a fresh reference
GatewayInitialize(ref, paymentData) ==
    [gw EXCEPT ![ref] = [status |-> "pending",
                         amount |-> paymentData.amount,
                         user_id |-> paymentData.metadata.user_id,
                         hotel_id |-> paymentData.metadata.hotel_id,
                         booking_data |-> paymentData.metadata.booking_data]]

\* what the gateway answers to an accepted POST /transaction/initialize
GatewayInitializeResponse(ref) ==
    [status |-> TRUE,
     data |-> [authorization_url |-> <<"pay", ref>>, reference |-> ref]]

\* GET /transaction/verify/:reference, answered
GatewayVerify(ref) ==
    IF ref \notin DOMAIN gw \/ gw[ref] = NoTx THEN [status |-> FALSE, data |-> NoTx]
    ELSE [status |-> TRUE, data |-> gw[ref]]

\* the customer pays, or the payment is declined, on the gateway's page
Pay(ref, ok) ==
    /\ gw[ref].status = "pending"
    /\ gw' = [gw EXCEPT ![ref].status = IF ok THEN "success" ELSE "failed"]
    /\ resp' = NoResp
    /\ UNCHANGED <<db, users, bookings, payments, session, today, inflight>>

\* ---------------------------------------------------- routes/payments.js
ToKobo(amount) == amount * KoboPerNaira
FromKobo(amount) == amount \div KoboPerNaira

\* !email || !amount || !hotelId || !bookingData
MissingPaymentInfo(body) ==
    body.email = "" \/ body.amount = 0 \/ body.hotelId = "" \/ body.bookingData = NoData

PaymentData_bodyIdentity(s, body) ==
    [email |-> body.email,
     amount |-> ToKobo(body.amount),
     metadata |-> [hotel_id |-> body.hotelId,
                   user_id |-> IF body.userId # NoUser THEN body.userId ELSE session[s],
                   booking_data |-> body.bookingData]]

PaymentData(s, body) ==
    [email |-> body.email,
     amount |-> ToKobo(body.amount),
     metadata |-> [hotel_id |-> body.hotelId,
                   user_id |-> session[s],
                   booking_data |-> body.bookingData]]

InitializeResult_noReference(response) ==
    [authorization_url |-> response.data.authorization_url, reference |-> NoRef]

\* the body of the success answer: authorization_url and reference
InitializeResult(response) ==
    [authorization_url |-> response.data.authorization_url,
     reference |-> response.data.reference]

\* POST /api/payment/initialize up to the call of initializePayment
Initialize(s, body) ==
    /\ Admit
    /\ IF ~requireAuth(s)
       THEN /\ resp' = Response("initialize", s, body, "auth_required", Nil)
            /\ UNCHANGED inflight
       ELSE IF MissingPaymentInfo(body)
       THEN /\ resp' = Response("initialize", s, body, "missing_info", Nil)
            /\ UNCHANGED inflight
       ELSE /\ inflight' = Suspend(Suspended("initialize", "awaitGateway", s, body,
                                             PaymentData(s, body)))
            /\ resp' = NoResp
    /\ UNCHANGED <<db, users, bookings, payments, session, gw, today>>

InitializeAnswer_persisting(answer) == \E r \in InFlight :
    /\ r.op = "initialize" /\ r.pc = "awaitGateway"
    /\ inflight' = Resume(r)
    /\ CASE answer = "accept" ->
              \E ref \in Refs :
                 /\ gw[ref] = NoTx
                 /\ gw' = GatewayInitialize(ref, r.loc)
                 /\ payments' = payments \cup
                       {[_id |-> Cardinality(payments) + 1, booking_id |-> NoId,
                         user_id |-> r.loc.metadata.user_id,
                         amount |-> FromKobo(r.loc.amount), currency |-> "NGN",
                         status |-> "pending", transaction_reference |-> ref]}
                 /\ resp' = Response("initialize", r.sess, r.req, "success",
                                     InitializeResult(GatewayInitializeResponse(ref)))
         [] answer = "reject" ->
              /\ resp' = Response("initialize", r.sess, r.req, "init_failed", Nil)
              /\ UNCHANGED <<gw, payments>>
         [] answer = "error" ->
              /\ resp' = Response("initialize", r.sess, r.req, "service_error", Nil)
              /\ UNCHANGED <<gw, payments>>
    /\ UNCHANGED <<db, users, bookings, session, today>>

\* the gateway's answer to initializePayment arrives
InitializeAnswer(answer) == \E r \in InFlight :
    /\ r.op = "initialize" /\ r.pc = "awaitGateway"
    /\ inflight' = Resume(r)
    /\ CASE answer = "accept" ->
              \E ref \in Refs :
                 /\ gw[ref] = NoTx
                 /\ gw' = GatewayInitialize(ref, r.loc)
                 /\ resp' = Response("initialize", r.sess, r.req, "success",
                                     InitializeResult(GatewayInitializeResponse(ref)))
         [] answer = "reject" ->
              /\ resp' = Response("initialize", r.sess, r.req, "init_failed", Nil)
              /\ UNCHANGED gw
         [] answer = "error" ->
              /\ resp' = Response("initialize", r.sess, r.req, "service_error", Nil)
              /\ UNCHANGED gw
    /\ UNCHANGED <<db, users, bookings, payments, session, today>>

MissingReference_never(reference) == FALSE

\* !reference
MissingReference(reference) == reference = NoRef

PaymentSucceeded_claimed(query, response) ==
    response.status /\ (response.data.status = "success" \/ query.status = "success")

PaymentSucceeded_anyStatus(query, response) == response.status

\* response.status && response.data.status === 'success'
PaymentSucceeded(query, response) ==
    response.status /\ response.data.status = "success"

TotalAmount_intent(response, bookingData) == bookingData.total

\* total_amount: response.data.amount / 100
TotalAmount(response, bookingData) == FromKobo(response.data.amount)

NewBooking_pending(reference, response) ==
    LET metadata == response.data
        bookingData == metadata.booking_data
    IN  [user_id |-> metadata.user_id,
         hotel_id |-> metadata.hotel_id,
         check_in |-> bookingData.checkin,
         check_out |-> bookingData.checkout,
         total_amount |-> FromKobo(response.data.amount),
         payment_status |-> "paid",
         booking_status |-> "pending",
         transaction_reference |-> reference,
         created_at |-> today,
         updated_at |-> today,
         cancelled_at |-> NoDay]

NewBooking(reference, response) ==
    LET metadata == response.data
        bookingData == metadata.booking_data
    IN  [user_id |-> metadata.user_id,
         hotel_id |-> metadata.hotel_id,
         check_in |-> bookingData.checkin,
         check_out |-> bookingData.checkout,
         total_amount |-> TotalAmount(response, bookingData),
         payment_status |-> "paid",
         booking_status |-> "confirmed",
         transaction_reference |-> reference,
         created_at |-> today,
         updated_at |-> today,
         cancelled_at |-> NoDay]

PaymentRecord(reference, response, insertedId) ==
    [booking_id |-> insertedId,
     user_id |-> response.data.user_id,
     amount |-> FromKobo(response.data.amount),
     currency |-> "NGN",
     status |-> "paid",
     transaction_reference |-> reference]

\* the document as the collection holds it
Stored(doc, id) == [f \in DOMAIN doc \cup {"_id"} |-> IF f = "_id" THEN id ELSE doc[f]]

VerifiesInFlight == {r \in InFlight : r.op = "verify"}
NumVerifiesInFlight == BagCardinality([r \in VerifiesInFlight |-> inflight[r]])

\* GET /api/payment/verify up to the call of verifyPayment
Verify(query) ==
    /\ Admit
    /\ Cardinality(bookings) + NumVerifiesInFlight < MaxBookings
    /\ IF MissingReference(query.reference)
       THEN /\ resp' = Response("verify", "", query, "missing_reference", Nil)
            /\ UNCHANGED inflight
       ELSE /\ inflight' = Suspend(Suspended("verify", "awaitGateway", "", query, Nil))
            /\ resp' = NoResp
    /\ UNCHANGED <<db, users, bookings, payments, session, gw, today>>

VerifyAnswer_oneFailure(answer) == \E r \in InFlight :
    /\ r.op = "verify" /\ r.pc = "awaitGateway"
    /\ LET response == GatewayVerify(r.req.reference)
       IN  IF answer = "error" \/ ~PaymentSucceeded(r.req, response)
           THEN /\ resp' = Response("verify", "", r.req, "payment_failed", Nil)
                /\ inflight' = Resume(r)
           ELSE IF ~db
           THEN /\ resp' = Response("verify", "", r.req, "success", Nil)
                /\ inflight' = Resume(r)
           ELSE /\ resp' = NoResp
                /\ inflight' = Resume(r) (+) SetToBag({
                      Suspended("verify", "awaitInsertBooking", "", r.req,
                                [response |-> response,
                                 newBooking |-> NewBooking(r.req.reference, response),
                                 insertedId |-> NoId])})
    /\ UNCHANGED <<db, users, bookings, payments, session, gw, today>>

\* the gateway's answer to verifyPayment arrives
VerifyAnswer(answer) == \E r \in InFlight :
    /\ r.op = "verify" /\ r.pc = "awaitGateway"
    /\ LET response == GatewayVerify(r.req.reference)
       IN  IF answer = "error"
           THEN /\ resp' = Response("verify", "", r.req, "verification_failed", Nil)
                /\ inflight' = Resume(r)
           ELSE IF ~PaymentSucceeded(r.req, response)
           THEN /\ resp' = Response("verify", "", r.req, "payment_failed", Nil)
                /\ inflight' = Resume(r)
           ELSE IF ~db
           THEN /\ resp' = Response("verify", "", r.req, "success", Nil)
                /\ inflight' = Resume(r)
           ELSE /\ resp' = NoResp
                /\ inflight' = Resume(r) (+) SetToBag({
                      Suspended("verify", "awaitInsertBooking", "", r.req,
                                [response |-> response,
                                 newBooking |-> NewBooking(r.req.reference, response),
                                 insertedId |-> NoId])})
    /\ UNCHANGED <<db, users, bookings, payments, session, gw, today>>

VerifyInsertBooking_replacing(ok) == \E r \in InFlight :
    /\ r.op = "verify" /\ r.pc = "awaitInsertBooking"
    /\ IF ok
       THEN LET id == Cardinality(bookings) + 1
            IN  /\ bookings' = {b \in bookings :
                                   b.transaction_reference # r.req.reference}
                                \cup {Stored(r.loc.newBooking, id)}
                /\ inflight' = Resume(r) (+) SetToBag({
                      Suspended("verify", "awaitInsertPayment", "", r.req,
                                [r.loc EXCEPT !.insertedId = id])})
                /\ resp' = NoResp
       ELSE /\ resp' = Response("verify", "", r.req, "verification_failed", Nil)
            /\ inflight' = Resume(r)
            /\ UNCHANGED bookings
    /\ UNCHANGED <<db, users, payments, session, gw, today>>

\* bookings.insertOne(newBooking) is applied, or fails
VerifyInsertBooking(ok) == \E r \in InFlight :
    /\ r.op = "verify" /\ r.pc = "awaitInsertBooking"
    /\ IF ok
       THEN LET id == Cardinality(bookings) + 1
            IN  /\ bookings' = bookings \cup {Stored(r.loc.newBooking, id)}
                /\ inflight' = Resume(r) (+) SetToBag({
                      Suspended("verify", "awaitInsertPayment", "", r.req,
                                [r.loc EXCEPT !.insertedId = id])})
                /\ resp' = NoResp
       ELSE /\ resp' = Response("verify", "", r.req, "verification_failed", Nil)
            /\ inflight' = Resume(r)
            /\ UNCHANGED bookings
    /\ UNCHANGED <<db, users, payments, session, gw, today>>

\* payments.insertOne(paymentRecord) is applied, or fails
VerifyInsertPayment(ok) == \E r \in InFlight :
    /\ r.op = "verify" /\ r.pc = "awaitInsertPayment"
    /\ inflight' = Resume(r)
    /\ IF ok
       THEN /\ payments' = payments \cup
                 {Stored(PaymentRecord(r.req.reference, r.loc.response, r.loc.insertedId),
                         Cardinality(payments) + 1)}
            /\ resp' = Response("verify", "", r.req, "success", Nil)
       ELSE /\ resp' = Response("verify", "", r.req, "verification_failed", Nil)
            /\ UNCHANGED payments
    /\ UNCHANGED <<db, users, bookings, session, gw, today>>

\* --------------------------------------- routes/auth.js, bookings router
\* ids a client can put into /api/bookings/:id; BadId is no ObjectId
BadId == -1
BookingIds == (1..MaxBookings) \cup {BadId}

BookingsOf_all(user) == bookings

\* find({ user_id }) : the caller's bookings
BookingsOf(user) == {b \in bookings : b.user_id = user}

FindOwned_anyOwner(id, user) == {b \in bookings : b._id = id}

\* findOne({ _id, user_id })
FindOwned(id, user) == {b \in bookings : b._id = id /\ b.user_id = user}

SortedNewestFirst_unsorted(S) ==
    {seq \in [1..Cardinality(S) -> S] :
        \A i, j \in 1..Cardinality(S) : i # j => seq[i] # seq[j]}

\* .sort({ created_at: -1 }).toArray(): the orders the cursor can deliver
SortedNewestFirst(S) ==
    {seq \in [1..Cardinality(S) -> S] :
        /\ \A i, j \in 1..Cardinality(S) : i # j => seq[i] # seq[j]
        /\ \A i, j \in 1..Cardinality(S) : i < j => seq[i].created_at >= seq[j].created_at}

\* GET /api/bookings
List(s, ok) ==
    /\ IF ~requireAuth(s)
       THEN resp' = Response("list", s, Nil, "auth_required", Nil)
       ELSE IF ~db
       THEN resp' = Response("list", s, Nil, "db_not_connected", Nil)
       ELSE IF ~ok
       THEN resp' = Response("list", s, Nil, "failed", Nil)
       ELSE \E seq \in SortedNewestFirst(BookingsOf(session[s])) :
               resp' = Response("list", s, Nil, "success", [bookings |-> seq])
    /\ UNCHANGED <<db, users, bookings, payments, session, gw, today, inflight>>

\* GET /api/bookings/:id
Get(s, id, ok) ==
    /\ LET req == [id |-> id]
       IN  IF ~requireAuth(s)
           THEN resp' = Response("get", s, req, "auth_required", Nil)
           ELSE IF ~db
           THEN resp' = Response("get", s, req, "db_not_connected", Nil)
           ELSE IF id = BadId \/ ~ok     \* new ObjectId throws, or findOne does
           THEN resp' = Response("get", s, req, "failed", Nil)
           ELSE IF FindOwned(id, session[s]) = {}
           THEN resp' = Response("get", s, req, "not_found", Nil)
           ELSE resp' = Response("get", s, req, "success",
                                 [booking |-> CHOOSE b \in FindOwned(id, session[s]) : TRUE])
    /\ UNCHANGED <<db, users, bookings, payments, session, gw, today, inflight>>

AlreadyCancelled_never(booking) == FALSE

\* booking.booking_status === BOOKING_STATUS.CANCELLED
AlreadyCancelled(booking) == booking.booking_status = "cancelled"

TooLate_strict(check_in) == check_in # NoDay /\ check_in < today

\* checkinDate <= currentDate; an unparsable check_in compares false
TooLate(check_in) == check_in # NoDay /\ check_in <= today

\* POST /api/bookings/:id/cancel up to the call of updateOne
Cancel(s, id, ok) ==
    /\ Admit
    /\ LET req == [id |-> id]
           found == FindOwned(id, session[s])
           booking == CHOOSE b \in found : TRUE
           out == IF ~requireAuth(s) THEN "auth_required"
                  ELSE IF ~db THEN "db_not_connected"
                  ELSE IF id = BadId \/ ~ok THEN "failed"
                  ELSE IF found = {} THEN "not_found"
                  ELSE IF AlreadyCancelled(booking) THEN "already_cancelled"
                  ELSE IF TooLate(booking.check_in) THEN "too_late"
                  ELSE ""
       IN  IF out = ""
           THEN /\ inflight' = Suspend(Suspended("cancel", "awaitUpdate", s, req, Nil))
                /\ resp' = NoResp
           ELSE /\ resp' = Response("cancel", s, req, out, Nil)
                /\ UNCHANGED inflight
    /\ UNCHANGED <<db, users, bookings, payments, session, gw, today>>

CancelUpdate_voiding(ok) == \E r \in InFlight :
    /\ r.op = "cancel" /\ r.pc = "awaitUpdate"
    /\ inflight' = Resume(r)
    /\ IF ok
       THEN /\ bookings' = {IF b._id = r.req.id
                            THEN [b EXCEPT !.booking_status = "cancelled",
                                           !.payment_status = "refunded",
                                           !.cancelled_at = today,
                                           !.updated_at = today]
                            ELSE b : b \in bookings}
            /\ resp' = Response("cancel", r.sess, r.req, "cancelled", Nil)
       ELSE /\ resp' = Response("cancel", r.sess, r.req, "failed", Nil)
            /\ UNCHANGED bookings
    /\ UNCHANGED <<db, users, payments, session, gw, today>>

CancelUpdate_refunding(ok) == \E r \in InFlight :
    /\ r.op = "cancel" /\ r.pc = "awaitUpdate"
    /\ inflight' = Resume(r)
    /\ IF ok
       THEN /\ bookings' = {IF b._id = r.req.id
                            THEN [b EXCEPT !.booking_status = "cancelled",
                                           !.cancelled_at = today,
                                           !.updated_at = today]
                            ELSE b : b \in bookings}
            /\ payments' = {IF p.booking_id = r.req.id
                            THEN [p EXCEPT !.status = "refunded"]
                            ELSE p : p \in payments}
            /\ resp' = Response("cancel", r.sess, r.req, "cancelled", Nil)
       ELSE /\ resp' = Response("cancel", r.sess, r.req, "failed", Nil)
            /\ UNCHANGED <<bookings, payments>>
    /\ UNCHANGED <<db, users, session, gw, today>>

\* updateOne({ _id }, { $set: ... }) is applied, or fails.  The filter names
\* the _id only.  cancelled_at and updated_at carry the millisecond of the
\* call, so an update of a Booking that is already cancelled still modifies
\* it (modifiedCount 1); ok = FALSE stands for a thrown error and for
\* modifiedCount 0.
CancelUpdate(ok) == \E r \in InFlight :
    /\ r.op = "cancel" /\ r.pc = "awaitUpdate"
    /\ inflight' = Resume(r)
    /\ IF ok
       THEN /\ bookings' = {IF b._id = r.req.id
                            THEN [b EXCEPT !.booking_status = "cancelled",
                                           !.cancelled_at = today,
                                           !.updated_at = today]
                            ELSE b : b \in bookings}
            /\ resp' = Response("cancel", r.sess, r.req, "cancelled", Nil)
       ELSE /\ resp' = Response("cancel", r.sess, r.req, "failed", Nil)
            /\ UNCHANGED bookings
    /\ UNCHANGED <<db, users, payments, session, gw, today>>

\* request bodies and queries a client can send
BodyEmails == {"", "c@x"}
HotelIds == {"", "hotel1"}
Bodies ==
    [email : BodyEmails \ {""}, amount : Amounts \ {0}, hotelId : HotelIds \ {""},
     bookingData : BookingDatas]
    \cup {[email |-> "", amount |-> 1, hotelId |-> "hotel1", bookingData |-> NoData],
          [email |-> "c@x", amount |-> 0, hotelId |-> "", bookingData |-> NoData]}
Queries == [reference : Refs \cup {NoRef}, status : {"", "success"}]

Next ==
    \/ \E ok \in BOOLEAN : initializeApplication(ok)
    \/ Tick
    \/ \E e \in Emails, p \in Passwords, ok \in BOOLEAN : RegisterFind(e, p, ok)
    \/ \E ok \in BOOLEAN : RegisterInsert(ok)
    \/ \E s \in Sessions, e \in Emails, p \in Passwords \cup {BadPassword},
          ok \in BOOLEAN : Login(s, e, p, ok)
    \/ \E s \in Sessions, ok \in BOOLEAN : Logout(s, ok)
    \/ \E ref \in Refs, ok \in BOOLEAN : Pay(ref, ok)
    \/ \E s \in Sessions, body \in Bodies : Initialize(s, body)
    \/ \E a \in {"accept", "reject", "error"} : InitializeAnswer(a)
    \/ \E q \in Queries : Verify(q)
    \/ \E a \in {"answer", "error"} : VerifyAnswer(a)
    \/ \E ok \in BOOLEAN : VerifyInsertBooking(ok)
    \/ \E ok \in BOOLEAN : VerifyInsertPayment(ok)
    \/ \E s \in Sessions, ok \in BOOLEAN : List(s, ok)
    \/ \E s \in Sessions, id \in BookingIds, ok \in BOOLEAN : Get(s, id, ok)
    \/ \E s \in Sessions, id \in BookingIds, ok \in BOOLEAN : Cancel(s, id, ok)
    \/ \E ok \in BOOLEAN : CancelUpdate(ok)

Spec == Init /\ [][Next]_vars

\* clients that send their requests one after the other: a request is
\* admitted only once the one before it has been answered
Serial == BagCardinality(inflight') <= 1
NextSerial == Next /\ Serial
SpecSerial == Init /\ [][NextSerial]_vars

\* ------------------------------------- frontend/public/js/booking-utils.js
\* BookingUtils.validateBookingData: TRUE where it returns true, FALSE where
\* it throws.  No handler of the backend calls it.
validateBookingData(bookingData) ==
    /\ bookingData.checkin # NoDay /\ bookingData.checkout # NoDay
    /\ ~(bookingData.checkin < today)
    /\ ~(bookingData.checkout <= bookingData.checkin)

\* Two registered clients who take turns on the browser session, and who
\* also post bodies the booking form would not let through: a stay that
\* starts on day 1, a stay that ends on the day it starts, and a userId
\* field that names the second client as the one who books.  The gateway
\* accepts and the store writes succeed; reads may still fail.
Clients == {"a@x", "b@x"}
ClientBookingDatas ==
    { [checkin |-> 2, checkout |-> 3, total |-> 1],
      [checkin |-> 1, checkout |-> 2, total |-> 1],
      [checkin |-> 2, checkout |-> 2, total |-> 1] }
ClientBodies ==
    [email : {"c@x"}, amount : {1}, hotelId : {"hotel1"}, bookingData : ClientBookingDatas,
     userId : {NoUser, 2}]
ClientQueries == [reference : Refs, status : {""}]

NextClients ==
    \/ initializeApplication(TRUE)
    \/ Tick
    \/ \E e \in Clients : RegisterFind(e, "pw", TRUE)
    \/ RegisterInsert(TRUE)
    \/ \E s \in Sessions, e \in Clients : Login(s, e, "pw", TRUE)
    \/ \E s \in Sessions : Logout(s, TRUE)
    \/ \E ref \in Refs : Pay(ref, TRUE)
    \/ \E s \in Sessions, body \in ClientBodies : Initialize(s, body)
    \/ InitializeAnswer("accept")
    \/ \E q \in ClientQueries : Verify(q)
    \/ VerifyAnswer("answer")
    \/ VerifyInsertBooking(TRUE)
    \/ VerifyInsertPayment(TRUE)
    \/ \E s \in Sessions, ok \in BOOLEAN : List(s, ok)
    \/ \E s \in Sessions, id \in BookingIds, ok \in BOOLEAN : Get(s, id, ok)
    \/ \E s \in Sessions, id \in BookingIds, ok \in BOOLEAN : Cancel(s, id, ok)
    \/ CancelUpdate(TRUE)

\* the clients take turns: a request is sent once the one before it is answered
NextTurns == NextClients /\ Serial
SpecClients == Init /\ [][NextTurns]_vars

\* -------------------------------------------- a gateway that may stay silent
\* makePaystackRequest settles its promise on the 'end' event of the response
\* and on the 'error' event of the request; it sets no timeout.  A call the
\* gateway never answers raises neither event.
GatewayHang == \E r \in InFlight :
    /\ r.pc = "awaitGateway"
    /\ inflight' = Resume(r) (+) SetToBag({[r EXCEPT !.pc = "awaitGatewayForever"]})
    /\ resp' = NoResp
    /\ UNCHANGED <<db, users, bookings, payments, session, gw, today>>

\* One client who sends a request once the one before it is answered.  Every
\* call the gateway or the store does answer is answered in the end, and the
\* event loop then runs the rest of the handler.
LiveBodies ==
    {[email |-> "c@x", amount |-> 1, hotelId |-> "hotel1",
      bookingData |-> [checkin |-> 2, checkout |-> 3, total |-> 1]]}
LiveQueries == [reference : Refs, status : {""}]

NextLive ==
    \/ \E ok \in BOOLEAN : initializeApplication(ok)
    \/ \E e \in Emails, p \in Passwords : RegisterFind(e, p, TRUE)
    \/ \E ok \in BOOLEAN : RegisterInsert(ok)
    \/ \E s \in Sessions, e \in Emails, p \in Passwords : Login(s, e, p, TRUE)
    \/ \E ref \in Refs, ok \in BOOLEAN : Pay(ref, ok)
    \/ \E s \in Sessions, body \in LiveBodies : Initialize(s, body)
    \/ \E a \in {"accept", "reject", "error"} : InitializeAnswer(a)
    \/ \E q \in LiveQueries : Verify(q)
    \/ \E a \in {"answer", "error"} : VerifyAnswer(a)
    \/ \E ok \in BOOLEAN : VerifyInsertBooking(ok)
    \/ \E ok \in BOOLEAN : VerifyInsertPayment(ok)
    \/ GatewayHang

NextLiveTurns == NextLive /\ Serial

Fairness ==
    /\ WF_vars(\E ok \in BOOLEAN : RegisterInsert(ok))
    /\ WF_vars(\E a \in {"accept", "reject", "error"} : InitializeAnswer(a))
    /\ WF_vars(\E a \in {"answer", "error"} : VerifyAnswer(a))
    /\ WF_vars(\E ok \in BOOLEAN : VerifyInsertBooking(ok))
    /\ WF_vars(\E ok \in BOOLEAN : VerifyInsertPayment(ok))

SpecLive == Init /\ [][NextLiveTurns]_vars /\ Fairness

\* ================================================================ claims
BookingsWith(ref) == {b \in bookings : b.transaction_reference = ref}
PaymentsWith(ref) == {p \in payments : p.transaction_reference = ref}
VerifyReported(out) == resp.op = "verify" /\ resp.out = out
Guarded == {"initialize", "list", "get", "cancel"}

\* C1: when a Verify invocation served with a database handle reports
\* success for a reference, the stores hold exactly one Booking and exactly
\* one PaymentRecord with that reference, however many Verify invocations
\* for it ran before or alongside.
C1_ExactlyOnePair ==
    (VerifyReported("success") /\ db) =>
        /\ Cardinality(BookingsWith(resp.req.reference)) = 1
        /\ Cardinality(PaymentsWith(resp.req.reference)) = 1

\* C2: with requests served one after the other, a Verify that reaches the
\* bookings insert for a reference that already has its Booking (written
\* and its PaymentRecord (written by an earlier invocation) writes no
\* second Booking.
C2_DuplicateVerifyWritesNothing ==
    [][\A r \in InFlight :
          ( /\ r.op = "verify" /\ r.pc = "awaitInsertBooking"
            /\ BookingsWith(r.req.reference) # {}
            /\ PaymentsWith(r.req.reference) # {} )
          => bookings' = bookings]_vars

\* C3: a reference whose gateway status is not "success" has no Booking and
\* no PaymentRecord, and a Verify of it reports a failure, never success.
C3_NoBookingWithoutSuccess ==
    /\ \A ref \in Refs :
          gw[ref].status # "success" =>
              BookingsWith(ref) = {} /\ PaymentsWith(ref) = {}
    /\ ( /\ resp.op = "verify"
         /\ resp.req.reference \in Refs
         /\ gw[resp.req.reference].status # "success" )
       => resp.out \in {"payment_failed", "verification_failed"}

\* C3 witness: a declined payment was verified and reported as failed
C3_Witness ==
    /\ VerifyReported("payment_failed")
    /\ resp.req.reference \in Refs
    /\ gw[resp.req.reference].status = "failed"

\* C4: whenever Verify reports success, a Booking with that reference is in
\* the store at that moment.
C4_SuccessImpliesBooking ==
    VerifyReported("success") => BookingsWith(resp.req.reference) # {}

\* C5: every Booking carries a reference the gateway holds as "success",
\* and a Booking is added only by the bookings insert of a Verify whose
\* gateway answer said so; no other step adds one.
C5_OnlyVerifiedPaymentsBook ==
    [][ /\ \A b \in bookings' : gw'[b.transaction_reference].status = "success"
        /\ {b._id : b \in bookings'} # {b._id : b \in bookings} =>
              \E r \in InFlight :
                 /\ r.op = "verify" /\ r.pc = "awaitInsertBooking"
                 /\ r.loc.response.data.status = "success"
                 /\ r.loc.response.data = gw[r.req.reference]
                 /\ bookings' \ bookings = BookingsWith(r.req.reference)' \ bookings
      ]_vars

\* C5 witness: a Booking exists for a Verify whose caller claimed nothing
C5_Witness ==
    /\ VerifyReported("success")
    /\ resp.req.status = ""
    /\ BookingsWith(resp.req.reference) # {}

\* C6: right after a Verify invocation ends with no other Verify in
\* progress, every Booking has exactly one PaymentRecord pointing at it with
\* the same reference, and every PaymentRecord points at a Booking.
C6_OneToOne ==
    (resp.op = "verify" /\ VerifiesInFlight = {}) =>
        /\ \A b \in bookings :
              Cardinality({p \in payments :
                  /\ p.booking_id = b._id
                  /\ p.transaction_reference = b.transaction_reference}) = 1
        /\ \A p \in payments : \E b \in bookings : p.booking_id = b._id

\* C7: a Booking's total_amount and its PaymentRecord's amount are the
\* amount the gateway holds for the reference, in naira, whatever total the
\* intent in the metadata carries.
C7_AmountIsGatewayAmount ==
    /\ \A b \in bookings :
          b.total_amount * KoboPerNaira = gw[b.transaction_reference].amount
    /\ \A p \in payments :
          p.amount * KoboPerNaira = gw[p.transaction_reference].amount

\* C7 witness: a Booking and its PaymentRecord whose intent quoted another total
C7_Witness ==
    \E b \in bookings :
       /\ gw[b.transaction_reference].booking_data.total # b.total_amount
       /\ \E p \in payments : p.booking_id = b._id

\* C8: a Verify without a reference answers missing_reference in the same
\* step, never calls the gateway and leaves the stores unchanged.
C8_MissingReferenceNoAction ==
    [][ /\ (resp'.op = "verify" /\ resp'.req.reference = NoRef) =>
              /\ resp'.out = "missing_reference"
              /\ UNCHANGED <<bookings, payments, gw, inflight>>
        /\ \A r \in BagToSet(inflight') :
              r.op = "verify" => r.req.reference # NoRef
      ]_vars

\* C8 witness: a Verify without a reference was answered
C8_Witness == VerifyReported("missing_reference") /\ resp.req.reference = NoRef

\* C9: Initiate, List, Get and Cancel invoked on a session without a user
\* answer auth_required in the same step, return no record, suspend nothing
\* (no gateway call, no store write pending) and change no state.
C9_UnauthenticatedNoEffect ==
    [][ /\ ( /\ resp'.op \in Guarded
             /\ inflight' = inflight
             /\ session[resp'.sess] = NoUser ) =>
              /\ resp'.out = "auth_required"
              /\ resp'.res = Nil
              /\ UNCHANGED <<db, users, bookings, payments, session, gw, today>>
        /\ \A r \in BagToSet(inflight') :
              (r.op \in Guarded /\ inflight' = Suspend(r)) => session[r.sess] # NoUser
      ]_vars

\* C9 witness: a Cancel on a session without a user was turned away
C9_Witness ==
    /\ resp.op = "cancel" /\ resp.out = "auth_required"
    /\ session[resp.sess] = NoUser

\* C10: Initiate calls the gateway only for a total above zero.
C10_NoGatewayCallForNonPositiveAmount ==
    \A r \in InFlight :
       (r.op = "initialize" /\ r.pc = "awaitGateway") => r.req.amount > 0

\* C11: Initiate calls the gateway only for an intent whose check-in is not
\* before today and whose check-out is after its check-in.
C11_NoGatewayCallForBadDates ==
    [][\A r \in BagToSet(inflight') :
          (r.op = "initialize" /\ inflight' = Suspend(r)) =>
              validateBookingData(r.req.bookingData)]_vars

\* C12: when the gateway accepts the Initialize call made for an intent with
\* a total above zero and a check-out after its check-in, the caller is
\* answered success with the authorization URL and the reference the
\* gateway issued, and that reference is not empty.
C12_InitiateReturnsGatewayReference ==
    [][\A r \in InFlight, ref \in Refs :
          ( /\ r.op = "initialize" /\ inflight' = Resume(r)
            /\ r.req.amount > 0
            /\ r.req.bookingData.checkout > r.req.bookingData.checkin
            /\ gw[ref] = NoTx /\ gw'[ref] # NoTx )
          => /\ resp' = Response("initialize", r.sess, r.req, "success",
                                 [authorization_url |-> <<"pay", ref>>,
                                  reference |-> ref])
             /\ resp'.res.reference # NoRef]_vars

\* C12 witness: a valid intent was answered with the reference of the
\* transaction the gateway now holds as pending
C12_Witness ==
    /\ resp.op = "initialize" /\ resp.out = "success"
    /\ resp.req.amount > 0
    /\ resp.req.bookingData.checkout > resp.req.bookingData.checkin
    /\ resp.res.reference \in Refs
    /\ gw[resp.res.reference].status = "pending"

\* C13: no step of Initiate, whatever it answers, changes the bookings or
\* the payments collection, and a Booking or a PaymentRecord is only ever
\* added by a Verify that has reached its inserts.
C13_InitiatePersistsNothing ==
    [][ /\ ( \/ resp'.op = "initialize"
             \/ \E r \in BagToSet(inflight') :
                   r.op = "initialize" /\ inflight' = Suspend(r) )
           => UNCHANGED <<bookings, payments>>
        /\ ( \/ {b._id : b \in bookings'} # {b._id : b \in bookings}
             \/ {p._id : p \in payments'} # {p._id : p \in payments} )
           => \E r \in InFlight :
                 /\ r.op = "verify"
                 /\ r.pc \in {"awaitInsertBooking", "awaitInsertPayment"}
      ]_vars

\* C13 witness: Initiate answered success and the stores are still empty
C13_Witness ==
    /\ resp.op = "initialize" /\ resp.out = "success"
    /\ bookings = {} /\ payments = {}
    /\ \E ref \in Refs : gw[ref].status = "pending"

C15_AlreadyCancelled ==
    [][\A s \in Sessions, id \in BookingIds :
          ( /\ Cancel(s, id, TRUE)
            /\ db /\ session[s] # NoUser
            /\ \E b \in bookings :
                  /\ b._id = id /\ b.user_id = session[s]
                  /\ b.booking_status = "cancelled" )
          => /\ resp' = Response("cancel", s, [id |-> id], "already_cancelled", Nil)
             /\ UNCHANGED <<bookings, payments, inflight>>]_vars

\* C15 witness: a Cancel of a Booking cancelled earlier was turned away
C15_Witness ==
    /\ resp.op = "cancel" /\ resp.out = "already_cancelled"
    /\ \E b \in bookings :
          /\ b._id = resp.req.id /\ b.user_id = session[resp.sess]
          /\ b.booking_status = "cancelled" /\ b.cancelled_at # NoDay

\* C16: a Cancel reports success only for a Booking that was not yet
\* cancelled when its update was applied, and a cancelled_at once written
\* is never written again.
C16_AtMostOneCancelSucceeds ==
    [][ /\ (resp'.op = "cancel" /\ resp'.out = "cancelled") =>
              \E b \in bookings :
                 b._id = resp'.req.id /\ b.booking_status # "cancelled"
        /\ \A b \in bookings :
              b.cancelled_at # NoDay =>
                  \E c \in bookings' :
                     c._id = b._id /\ c.cancelled_at = b.cancelled_at
      ]_vars

C18_NoForeignBookingDisclosed ==
    [][ /\ (resp'.op = "list" /\ resp'.out = "success") =>
              \A i \in DOMAIN resp'.res.bookings :
                 /\ session[resp'.sess] # NoUser
                 /\ resp'.res.bookings[i].user_id = session[resp'.sess]
        /\ (resp'.op = "list" /\ resp'.out # "success") => resp'.res = Nil
        /\ (resp'.op = "get" /\ resp'.out = "success") =>
              /\ session[resp'.sess] # NoUser
              /\ resp'.res.booking.user_id = session[resp'.sess]
        /\ (resp'.op = "get" /\ resp'.out # "success") => resp'.res = Nil
        /\ \A s \in Sessions, id \in BookingIds :
              ( /\ Get(s, id, TRUE)
                /\ db /\ session[s] # NoUser
                /\ \E b \in bookings : b._id = id /\ b.user_id # session[s] )
              => resp'.out = "not_found"
        /\ (resp'.op = "get" /\ resp'.req.id = BadId) =>
              resp'.out \in {"auth_required", "db_not_connected", "failed"}
      ]_vars

\* C18 witness: a client listed its Bookings, got none, and the store holds
\* another client's
C18_Witness ==
    /\ resp.op = "list" /\ resp.out = "success"
    /\ session[resp.sess] # NoUser
    /\ resp.res.bookings = <<>>
    /\ \E b \in bookings : b.user_id # session[resp.sess]

\* C19: a List that reads the store answers with every Booking of its
\* caller, each once, in an order in which no Booking comes before one
\* created later.
C19_ListAllNewestFirst ==
    (resp.op = "list" /\ resp.out = "success") =>
        LET seq == resp.res.bookings
        IN  /\ {seq[i] : i \in DOMAIN seq} = {b \in bookings : b.user_id = session[resp.sess]}
            /\ Len(seq) = Cardinality({b \in bookings : b.user_id = session[resp.sess]})
            /\ \A i, j \in DOMAIN seq : i < j => seq[i].created_at >= seq[j].created_at

\* C19 witness: a List answer with two Bookings created on different days
C19_Witness ==
    /\ resp.op = "list" /\ resp.out = "success"
    /\ Len(resp.res.bookings) = 2
    /\ resp.res.bookings[1].created_at > resp.res.bookings[2].created_at

\* C20: no step changes or removes a PaymentRecord; a Cancel, whatever it
\* answers, leaves the payments collection and the gateway's transactions
\* as they are and never waits for the gateway.
C20_PaymentsAppendOnly ==
    [][ /\ \A p \in payments : p \in payments'
        /\ ( \/ resp'.op = "cancel"
             \/ \E r \in BagToSet(inflight') :
                   r.op = "cancel" /\ inflight' = Suspend(r) )
           => UNCHANGED <<payments, gw>>
        /\ \A r \in BagToSet(inflight') : r.op = "cancel" => r.pc = "awaitUpdate"
      ]_vars

\* C20 witness: a Booking was cancelled and its PaymentRecord still says paid
C20_Witness ==
    /\ resp.op = "cancel" /\ resp.out = "cancelled"
    /\ \E p \in payments : p.booking_id = resp.req.id /\ p.status = "paid"

\* C21: a Verify whose gateway call fails answers verification_failed and
\* one whose gateway call is answered with a transaction that is not
\* successful answers payment_failed; neither changes the stores or the
\* gateway's transaction, and whatever was answered before, a Verify whose
\* gateway call is answered "success" while the store is connected goes on
\* to insert the Booking.
C21_GatewayFailureDistinctAndRetryable ==
    [][ /\ VerifyAnswer("error") =>
              /\ resp'.op = "verify" /\ resp'.out = "verification_failed"
              /\ UNCHANGED <<bookings, payments, gw>>
        /\ ( /\ VerifyAnswer("answer")
             /\ \A ref \in Refs : gw[ref].status # "success" ) =>
              /\ resp'.op = "verify" /\ resp'.out = "payment_failed"
              /\ UNCHANGED <<bookings, payments, gw>>
        /\ ( /\ VerifyAnswer("answer")
             /\ db
             /\ \A ref \in Refs : gw[ref].status = "success" ) =>
              /\ resp' = NoResp
              /\ \E r \in BagToSet(inflight') :
                    /\ r.op = "verify" /\ r.pc = "awaitInsertBooking"
                    /\ r.loc.newBooking.transaction_reference = r.req.reference
                    /\ CopiesIn(r, inflight') > CopiesIn(r, inflight)
      ]_vars

\* C21 witness: a Verify of a paid reference was answered
\* verification_failed, no Booking was written, and none is in the making
C21_Witness ==
    /\ VerifyReported("verification_failed")
    /\ resp.req.reference \in Refs
    /\ gw[resp.req.reference].status = "success"
    /\ bookings = {} /\ payments = {} /\ VerifiesInFlight = {}

\* C22: an Initiate or a Verify that is being handled is answered in the
\* end: whenever such a request is in flight, a later state has none in
\* flight.
C22_EveryInvocationAnswered ==
    (\E r \in InFlight : r.op \in {"initialize", "verify"})
        ~> (~ \E r \in InFlight : r.op \in {"initialize", "verify"})

\* C23: every Booking in the store has a check-out after its check-in.
C23_CheckOutAfterCheckIn ==
    \A b \in bookings : b.check_out > b.check_in

\* C24: with requests served one after the other, the Verify that writes
\* the first PaymentRecord of a reference and answers success leaves
\* exactly one Booking and exactly one PaymentRecord with that reference,
\* also when an earlier Verify of the reference failed at a store write.
C24_RetryAfterWriteFailureOnePair ==
    [][ ( /\ resp'.op = "verify" /\ resp'.out = "success"
          /\ payments' # payments
          /\ PaymentsWith(resp'.req.reference) = {} )
        => /\ Cardinality({b \in bookings' :
                 b.transaction_reference = resp'.req.reference}) = 1
           /\ Cardinality({p \in payments' :
                 p.transaction_reference = resp'.req.reference}) = 1
      ]_vars

\* C25: the step in which a Cancel answers cancelled leaves the Booking it
\* names with booking status cancelled and cancelled_at set to the day of
\* the update; apart from these two and updated_at every field of that
\* Booking is as before, every other Booking is as before, none is added or
\* removed, and users, payments, sessions and the gateway are untouched.
C25_CancelChangesStatusOnly ==
    [][ (resp'.op = "cancel" /\ resp'.out = "cancelled") =>
          /\ \A b \in bookings :
                IF b._id = resp'.req.id
                THEN \E c \in bookings' :
                        /\ c._id = b._id
                        /\ c.booking_status = "cancelled"
                        /\ c.cancelled_at = today
                        /\ \A f \in DOMAIN b \ {"booking_status", "cancelled_at",
                                                  "updated_at"} : c[f] = b[f]
                ELSE b \in bookings'
          /\ \E b \in bookings : b._id = resp'.req.id
          /\ Cardinality(bookings') = Cardinality(bookings)
          /\ UNCHANGED <<users, payments, session, gw>>
      ]_vars

\* C25 witness: a Booking with a later check-in was cancelled today next to
\* a second Booking that is still confirmed
C25_Witness ==
    /\ resp.op = "cancel" /\ resp.out = "cancelled"
    /\ \E b, o \in bookings :
          /\ b._id = resp.req.id /\ b.user_id = session[resp.sess]
          /\ b.booking_status = "cancelled" /\ b.cancelled_at = today
          /\ b.check_in > today
          /\ o._id # b._id /\ o.booking_status = "confirmed"

\* C26: a Booking in the store stays as it is in every step except the
\* update of a Cancel that names it, and no step removes one.
C26_CancelIsOnlyWriter ==
    [][\A b \in bookings :
          \/ b \in bookings'
          \/ /\ resp'.op = "cancel" /\ resp'.out = "cancelled"
             /\ b._id = resp'.req.id
             /\ \E c \in bookings' : c._id = b._id]_vars

\* C26 witness: a second Verify of a reference ended with success and the
\* cancelled Booking of the first is still there, still cancelled
C26_Witness ==
    /\ VerifyReported("success")
    /\ \E b, o \in BookingsWith(resp.req.reference) :
          /\ b.booking_status = "cancelled" /\ b.cancelled_at # NoDay
          /\ o.booking_status = "confirmed" /\ o._id > b._id

\* C27: a Booking enters the store as confirmed and paid; in every step its
\* payment status stays and its booking status stays or goes from confirmed
\* to cancelled, so a cancelled Booking remains cancelled.
C27_StatusMovesForward ==
    [][ /\ \A c \in bookings' :
              (~ \E b \in bookings : b._id = c._id) =>
                  c.booking_status = "confirmed" /\ c.payment_status = "paid"
        /\ \A b \in bookings :
              \E c \in bookings' :
                 /\ c._id = b._id
                 /\ c.payment_status = b.payment_status
                 /\ \/ c.booking_status = b.booking_status
                    \/ b.booking_status = "confirmed" /\ c.booking_status = "cancelled"
      ]_vars

\* C27 witness: a Booking cancelled on an earlier day is still cancelled
C27_Witness ==
    \E b \in bookings :
       /\ b.booking_status = "cancelled"
       /\ b.cancelled_at # NoDay /\ b.cancelled_at < today

\* C28: the gateway call of an Initiate carries the user of the caller's
\* session as user_id, whatever userId or email its body names, the
\* transaction the gateway opens keeps it, and every Booking and every
\* PaymentRecord belongs to the user_id of its reference's transaction.
C28_OwnerIsSessionIdentity ==
    [][ /\ \A r \in BagToSet(inflight') :
              (r.op = "initialize" /\ inflight' = Suspend(r)) =>
                  /\ session[r.sess] # NoUser
                  /\ r.loc.metadata.user_id = session[r.sess]
        /\ \A r \in InFlight, ref \in Refs :
              ( /\ r.op = "initialize" /\ inflight' = Resume(r)
                /\ gw[ref] = NoTx /\ gw'[ref] # NoTx ) =>
                  gw'[ref].user_id = r.loc.metadata.user_id
        /\ \A ref \in Refs : gw[ref] # NoTx => gw'[ref].user_id = gw[ref].user_id
        /\ \A b \in bookings' : b.user_id = gw'[b.transaction_reference].user_id
        /\ \A p \in payments' : p.user_id = gw'[p.transaction_reference].user_id
      ]_vars

\* C28 witness: the first client sent a body with the second client's
\* userId and was given a reference whose transaction names the first
\* client as its user
C28_Witness ==
    /\ resp.op = "initialize" /\ resp.out = "success"
    /\ session[resp.sess] = 1
    /\ resp.req.userId = 2
    /\ \E u \in users : u._id = resp.req.userId
    /\ gw[resp.res.reference].user_id = session[resp.sess]

====
